---------------------------- MODULE Spec2Model ----------------------------
(***************************************************************************)
(* Model of the survey-processing core of app11:                           *)
(*   classification.py  detect_type, classify_questions                    *)
(*   summary.py         _build_summary_for_series, build_all_summaries     *)
(*                                                                         *)
(* Text is modelled as a sequence of Unicode code points, so that          *)
(* str.strip(), str.lower() and the code-point ordering used by            *)
(* Series.sort_index() are computed, not assumed.  A cell of the table is  *)
(* a string cell, an integer cell or a missing cell (NaN / None).          *)
(* A percentage is kept in tenths of a percent (20.0 % is 200).            *)
(***************************************************************************)
EXTENDS Integers, Sequences, FiniteSets, TLC

VARIABLES
    df,                 \* the table handed to the core: [columns, rows]
    technical_columns,  \* the technical_columns argument of classify_questions
    qinfo,              \* result of classify_questions (insertion-ordered dict)
    summaries,          \* result of build_all_summaries (list)
    pc,                 \* "loaded" -> "classified" -> "summarized"
    \* data_loader.py: one call of slice_range
    ld,                 \* the LoadedData argument: [df, n_rows, n_cols]
    from_row,           \* the from_row argument
    to_row,             \* the to_row argument
    sliced,             \* the returned table, None before it returns
    \* app.py: the interactive session
    session,            \* st.session_state, a record of the keys of init_state
    uploader,           \* the files the file_uploader widget holds
    select_question_box,\* the value the selectbox widget keeps under its key
    rerun_pending,      \* st.rerun() was called: the script runs again at once
    last_event,         \* what triggered the last run of the script
    notice,             \* the st.info / st.success / st.error of the last run
    export_cache,       \* st.cache_data: per cached function, its cached value
    export              \* the report offered for download by the last run

coreVars == <<df, technical_columns, qinfo, summaries, pc>>

sliceVars == <<ld, from_row, to_row, sliced>>

appVars ==
    <<session, uploader, select_question_box, rerun_pending, last_event, notice,
      export_cache, export>>

vars == <<coreVars, sliceVars, appVars>>

---------------------------------------------------------------------------
(* Bounds of the explored input space *)

\* longest answer column drawn from RichVocab
MaxRichRows == 4
\* most columns of a grid table
MaxCols == 3
\* most rows of a grid table
MaxGridRows == 2
\* most cells (columns * rows) of a grid table
MaxGridCells == 6
\* most respondents of a tall column (many distinct plain answers)
MaxTallRows == 23
\* most cells of a grid table that is summarised as another table
MaxOtherCells == 4
\* most rows of a loaded table that is sliced
MaxSliceRows == 3
\* most files held by the file uploader
MaxFiles == 2

---------------------------------------------------------------------------
(* Small helpers *)

Min(a, b) == IF a < b THEN a ELSE b

Max(a, b) == IF a > b THEN a ELSE b

Range(s) == {s[i] : i \in 1..Len(s)}

RECURSIVE SumSeq(_)
SumSeq(s) == IF s = <<>> THEN 0 ELSE Head(s) + SumSeq(Tail(s))

\* s without its k-th element
RemoveAt(s, k) == [i \in 1..(Len(s) - 1) |-> IF i < k THEN s[i] ELSE s[i + 1]]

---------------------------------------------------------------------------
(* Cells and their string form *)

NA == [kind |-> "na", s |-> <<>>, n |-> 0]

StrCell(s) == [kind |-> "str", s |-> s, n |-> 0]

IntCell(n) == [kind |-> "int", s |-> <<>>, n |-> n]

\* pandas isna(): the cells Series.dropna() removes
IsMissing(c) == c.kind = "na"

\* Series.dropna()
dropna(series) == SelectSeq(series, LAMBDA c : ~IsMissing(c))

\* decimal digits of a natural number, as code points ("0" is 48)
RECURSIVE DigitsOf(_)
DigitsOf(n) ==
    IF n < 10 THEN <<48 + n>>
    ELSE DigitsOf(n \div 10) \o <<48 + (n % 10)>>

\* str(int)
IntToStr(n) == IF n < 0 THEN <<45>> \o DigitsOf(-n) ELSE DigitsOf(n)

\* the element-wise str() of Series.astype(str); str(nan) is "nan"
CellToStr(c) ==
    IF c.kind = "int" THEN IntToStr(c.n)
    ELSE IF c.kind = "na" THEN <<110, 97, 110>>
    ELSE c.s

\* the characters str.strip() removes (Python's str.isspace(), up to U+00A0)
IsSpace(ch) == ch \in ((9..13) \cup (28..32) \cup {133, 160})

RECURSIVE LStrip(_)
LStrip(s) ==
    IF s # <<>> /\ IsSpace(Head(s)) THEN LStrip(Tail(s)) ELSE s

RECURSIVE RStrip(_)
RStrip(s) ==
    IF s # <<>> /\ IsSpace(s[Len(s)])
    THEN RStrip(SubSeq(s, 1, Len(s) - 1))
    ELSE s

\* str.strip()
Strip(s) == RStrip(LStrip(s))

\* str.lower() on one code point: Latin A-Z, Cyrillic U+0400-U+040F and
\* U+0410-U+042F have a lower-case partner; every other one is kept
LowerChar(ch) ==
    IF ch \in 65..90 THEN ch + 32
    ELSE IF ch \in 1040..1071 THEN ch + 32
    ELSE IF ch \in 1024..1039 THEN ch + 80
    ELSE ch

\* str.lower()
Lower(s) == [i \in 1..Len(s) |-> LowerChar(s[i])]

\* Python's < on str: code-point lexicographic order
LexLess(a, b) ==
    \E k \in 1..(Min(Len(a), Len(b)) + 1) :
        /\ \A i \in 1..(k - 1) : a[i] = b[i]
        /\ \/ k > Len(a) /\ k <= Len(b)
           \/ k <= Len(a) /\ k <= Len(b) /\ a[k] < b[k]

\* v.astype(str).str.strip()
StrStrip(v) == [i \in 1..Len(v) |-> Strip(CellToStr(v[i]))]

---------------------------------------------------------------------------
(* The table *)

NCols(d) == Len(d.columns)

NRows(d) == Len(d.rows)

HasColumn(d, col) == \E j \in 1..NCols(d) : d.columns[j] = col

ColIndex(d, col) == CHOOSE j \in 1..NCols(d) : d.columns[j] = col

\* df[col]: the column labelled col, as a series
Column(d, col) == [i \in 1..NRows(d) |-> d.rows[i][ColIndex(d, col)]]


---------------------------------------------------------------------------
(* classification.py *)

\* QuestionType members
SCALE == "SCALE"

BINARY == "BINARY"

CATEGORICAL == "CATEGORICAL"

OPEN == "OPEN"

TECHNICAL == "TECHNICAL"

QuestionType == {SCALE, BINARY, CATEGORICAL, OPEN, TECHNICAL}

\* {"1", "2", "3", "4", "5"}
SCALE_SET == {<<49>>, <<50>>, <<51>>, <<52>>, <<53>>}

\* {"так", "ні", "не знаю", "yes", "no", "don't know", "dont know"}
BINARY_SET ==
    { <<1090, 1072, 1082>>,
      <<1085, 1110>>,
      <<1085, 1077, 32, 1079, 1085, 1072, 1102>>,
      <<121, 101, 115>>,
      <<110, 111>>,
      <<100, 111, 110, 39, 116, 32, 107, 110, 111, 119>>,
      <<100, 111, 110, 116, 32, 107, 110, 111, 119>> }

QuestionInfo(code, text, qtype) ==
    [code |-> code, text |-> text, qtype |-> qtype]

\* a strict ratio test, as a slip in the comparison would give
IsCategoricalStrict(n_unique, n) ==
    n_unique <= 15 /\ 10 * n_unique < 7 * Max(n, 1)

\* n_unique <= 15 and n_unique / max(n, 1) <= 0.7
\* (u / m <= 0.7 in correctly rounded doubles is 10 * u <= 7 * m)
IsCategorical(n_unique, n) ==
    n_unique <= 15 /\ 10 * n_unique <= 7 * Max(n, 1)

\* the cascade with the categorical rule tried before the scale and binary rules
detect_type_ratio_first(series) ==
    LET v == dropna(series)
        v_str == StrStrip(v)
        uniq == Range(v_str)
        low == {Lower(x) : x \in uniq}
    IN  IF v = <<>> THEN OPEN
        ELSE IF IsCategorical(Cardinality(uniq), Len(v_str)) THEN CATEGORICAL
        ELSE IF uniq \subseteq SCALE_SET THEN SCALE
        ELSE IF low \subseteq BINARY_SET THEN BINARY
        ELSE OPEN

\* the scale and binary rules decided on the first answer alone
detect_type_first_answer(series) ==
    LET v == dropna(series)
        v_str == StrStrip(v)
        uniq == Range(v_str)
        lead == IF v_str = <<>> THEN {} ELSE {v_str[1]}
    IN  IF v = <<>> THEN OPEN
        ELSE IF lead \subseteq SCALE_SET THEN SCALE
        ELSE IF {Lower(x) : x \in lead} \subseteq BINARY_SET THEN BINARY
        ELSE IF IsCategorical(Cardinality(uniq), Len(v_str)) THEN CATEGORICAL
        ELSE OPEN

\* the cascade without its "if v.empty" test: no answers pass the scale rule
detect_type_no_empty_test(series) ==
    LET v_str == StrStrip(dropna(series))
        uniq == Range(v_str)
    IN  IF uniq \subseteq SCALE_SET THEN SCALE
        ELSE IF {Lower(x) : x \in uniq} \subseteq BINARY_SET THEN BINARY
        ELSE IF IsCategorical(Cardinality(uniq), Len(v_str)) THEN CATEGORICAL
        ELSE OPEN

\* an unanswered question taken for a closed one
detect_type_empty_is_categorical(series) ==
    LET v == dropna(series)
        v_str == StrStrip(v)
        uniq == Range(v_str)
    IN  IF v = <<>> THEN CATEGORICAL
        ELSE IF uniq \subseteq SCALE_SET THEN SCALE
        ELSE IF {Lower(x) : x \in uniq} \subseteq BINARY_SET THEN BINARY
        ELSE IF IsCategorical(Cardinality(uniq), Len(v_str)) THEN CATEGORICAL
        ELSE OPEN

detect_type(series) ==
    LET v == dropna(series)
        v_str == StrStrip(v)
        uniq == Range(v_str)
        n_unique == Cardinality(uniq)
        n == Len(v_str)
        low == {Lower(x) : x \in uniq}
    IN  IF v = <<>> THEN OPEN
        ELSE IF uniq \subseteq SCALE_SET THEN SCALE
        ELSE IF low \subseteq BINARY_SET THEN BINARY
        ELSE IF IsCategorical(n_unique, n) THEN CATEGORICAL
        ELSE OPEN

\* An insertion-ordered dict is a sequence of [key, info] entries.
DictHas(d, key) == \E i \in 1..Len(d) : d[i].key = key

\* d[key] = info: a new key is appended, a present key keeps its place
DictSet(d, key, info) ==
    IF DictHas(d, key)
    THEN [i \in 1..Len(d) |-> IF d[i].key = key
                               THEN [key |-> key, info |-> info]
                               ELSE d[i]]
    ELSE Append(d, [key |-> key, info |-> info])

\* the numbering restarted from the column's own position
QuestionCodeAbsolute(idx, tc) ==
    IF idx >= tc THEN <<81>> \o IntToStr(idx + 1) ELSE <<45>>

\* f"Q{idx - technical_columns + 1}" if idx >= technical_columns else "-"
\* (idx is the 0-based position; "Q" is 81, "-" is 45)
QuestionCode(idx, tc) ==
    IF idx >= tc THEN <<81>> \o IntToStr(idx - tc + 1) ELSE <<45>>

\* the body of "for idx, col in enumerate(df.columns)", from position i on
RECURSIVE ClassifyFrom(_, _, _, _)
ClassifyFrom(d, tc, i, result) ==
    IF i > NCols(d) THEN result
    ELSE LET idx == i - 1
             col == d.columns[i]
             text == Strip(col)
             qtype == IF idx < tc THEN TECHNICAL
                      ELSE detect_type(Column(d, col))
             code == QuestionCode(idx, tc)
         IN  ClassifyFrom(d, tc, i + 1,
                          DictSet(result, col, QuestionInfo(code, text, qtype)))

classify_questions(d, tc) == ClassifyFrom(d, tc, 1, <<>>)


---------------------------------------------------------------------------
(* summary.py *)

QuestionSummary(question, table) == [question |-> question, table |-> table]

\* The counts Series: a sequence of [index, count] entries.

\* the distinct values of a sequence, in order of first appearance
RECURSIVE Unique(_)
Unique(s) ==
    IF s = <<>> THEN <<>>
    ELSE LET rest == Unique(SubSeq(s, 1, Len(s) - 1))
             last == s[Len(s)]
         IN  IF last \in Range(rest) THEN rest ELSE Append(rest, last)

CountOf(s, x) == Cardinality({i \in 1..Len(s) : s[i] = x})

\* entries ordered by count, largest first; equal counts keep their order
RECURSIVE SortByCountDesc(_)
SortByCountDesc(c) ==
    IF c = <<>> THEN <<>>
    ELSE LET m == CHOOSE i \in 1..Len(c) :
                      /\ \A j \in 1..Len(c) : c[j].count <= c[i].count
                      /\ \A j \in 1..(i - 1) : c[j].count < c[i].count
         IN  <<c[m]>> \o SortByCountDesc(RemoveAt(c, m))

\* Series.value_counts(): one entry per distinct value, most frequent first
value_counts(s) ==
    LET u == Unique(s)
    IN  SortByCountDesc([i \in 1..Len(u) |->
                            [index |-> u[i], count |-> CountOf(s, u[i])]])

\* the counts left in value_counts() order (sort_index() dropped)
sort_index_skipped(c) == c

\* Series.sort_index() on a str index: ascending code-point order
RECURSIVE sort_index(_)
sort_index(c) ==
    IF c = <<>> THEN <<>>
    ELSE LET m == CHOOSE i \in 1..Len(c) :
                      \A j \in 1..Len(c) : ~LexLess(c[j].index, c[i].index)
         IN  <<c[m]>> \o sort_index(RemoveAt(c, m))

\* the percentage cut to one decimal instead of rounded
PercentTruncated(count, total) == (1000 * count) \div total

\* the percentage rounded to a whole percent (round(0) for round(1))
PercentWhole(count, total) ==
    LET q == (100 * count) \div total
        r == (100 * count) % total
    IN  10 * (IF 2 * r > total \/ (2 * r = total /\ q % 2 = 1) THEN q + 1 ELSE q)

\* round(count / total * 100, 1), in tenths of a percent: the nearest tenth,
\* a tie going to the even tenth (numpy rounds x * 10 with rint)
Percent(count, total) ==
    LET q == (1000 * count) \div total
        r == (1000 * count) % total
    IN  IF 2 * r > total \/ (2 * r = total /\ q % 2 = 1) THEN q + 1 ELSE q

\* the grouping done on lower-cased values, as the classifier tests them
GroupKeysLowered(v) == [i \in 1..Len(v) |-> Lower(Strip(CellToStr(v[i])))]

\* v.astype(str).str.strip(): the values value_counts() groups by
GroupKeys(v) == StrStrip(v)

\* the table built without dropna(): missing answers are counted as "nan"
BuildTableKeepingMissing(series) ==
    LET counts == sort_index(value_counts(GroupKeys(series)))
        total == SumSeq([i \in 1..Len(counts) |-> counts[i].count])
    IN  [i \in 1..Len(counts) |->
            [value |-> counts[i].index,
             count |-> counts[i].count,
             percent |-> Percent(counts[i].count, total)]]

\* lines 38-48: the frequency table of a column with at least one answer
BuildTable(series) ==
    LET v == dropna(series)
        counts == sort_index(value_counts(GroupKeys(v)))
        total == SumSeq([i \in 1..Len(counts) |-> counts[i].count])
    IN  [i \in 1..Len(counts) |->
            [value |-> counts[i].index,
             count |-> counts[i].count,
             percent |-> Percent(counts[i].count, total)]]

_build_summary_for_series(series, question) ==
    IF dropna(series) = <<>> \/ question.qtype \in {OPEN, TECHNICAL}
    THEN QuestionSummary(question, <<>>)
    ELSE QuestionSummary(question, BuildTable(series))

\* the filter of build_all_summaries letting technical columns through
IsExcludedOpenOnly(info) == info.qtype = OPEN

\* info.qtype in (QuestionType.OPEN, QuestionType.TECHNICAL)
IsExcluded(info) == info.qtype \in {OPEN, TECHNICAL}

\* df[col] raises KeyError for an included column that the table lacks
SummariesRaiseKeyError(d, q) ==
    \E i \in 1..Len(q) : ~IsExcluded(q[i].info) /\ ~HasColumn(d, q[i].key)

\* the body of "for col, info in qinfo.items()", from entry i on
RECURSIVE SummariesFrom(_, _, _, _)
SummariesFrom(d, q, i, acc) ==
    IF i > Len(q) THEN acc
    ELSE IF IsExcluded(q[i].info) THEN SummariesFrom(d, q, i + 1, acc)
    ELSE SummariesFrom(d, q, i + 1,
             Append(acc, _build_summary_for_series(Column(d, q[i].key),
                                                   q[i].info)))

build_all_summaries(d, q) == SummariesFrom(d, q, 1, <<>>)


---------------------------------------------------------------------------
(* The explored tables *)

\* column labels as the spreadsheet gives them, with surrounding blanks:
\* " ts", then "q2 ", "q3 ", ...
HeaderOf(j) ==
    IF j = 1 THEN <<32, 116, 115>> ELSE <<113>> \o DigitsOf(j) \o <<32>>

Headers(c) == [j \in 1..c |-> HeaderOf(j)]

\* answers of a closed or open question, as typed by respondents:
\* missing, "Так", "так " (trailing blank), "Ні", the number 3, " 3", "x"
RichVocab ==
    { NA,
      StrCell(<<1058, 1072, 1082>>),
      StrCell(<<1090, 1072, 1082, 32>>),
      StrCell(<<1053, 1110>>),
      IntCell(3),
      StrCell(<<32, 51>>),
      StrCell(<<120>>) }

RichColumns == UNION {[1..n -> RichVocab] : n \in 0..MaxRichRows}

\* the k-th plain answer of a tall column: "z", "y", "x", ... (first-seen
\* order is the reverse of the sorted order)
Word(k) == <<123 - k>>

\* the non-increasing sequences of positive parts <= m that sum to n
RECURSIVE Partitions(_, _)
Partitions(n, m) ==
    IF n = 0 THEN {<<>>}
    ELSE UNION {{<<k>> \o p : p \in Partitions(n - k, k)} : k \in 1..Min(n, m)}

\* the column in which Word(k) is answered p[k] times
RECURSIVE TallColumn(_)
TallColumn(p) ==
    IF p = <<>> THEN <<>>
    ELSE TallColumn(SubSeq(p, 1, Len(p) - 1))
             \o [i \in 1..p[Len(p)] |-> StrCell(Word(Len(p)))]

TallColumns ==
    {TallColumn(p) : p \in UNION {Partitions(n, n) : n \in 1..MaxTallRows}}

\* ["1", "2", "2", "3", "5"]
ScaleScenario ==
    <<StrCell(<<49>>), StrCell(<<50>>), StrCell(<<50>>), StrCell(<<51>>),
      StrCell(<<53>>)>>

\* ["Так", "Ні", "Так", "так "]
BinaryScenario ==
    <<StrCell(<<1058, 1072, 1082>>), StrCell(<<1053, 1110>>),
      StrCell(<<1058, 1072, 1082>>), StrCell(<<1090, 1072, 1082, 32>>)>>

\* 12 distinct answers from 50 respondents
CategoricalScenario == TallColumn(<<15, 15, 2, 2, 2, 2, 2, 2, 2, 2, 2, 2>>)

ScenarioColumns == {ScaleScenario, BinaryScenario, CategoricalScenario}

\* a form export: the timestamp column, then one question column
SurveyTable(answers) ==
    [columns |-> Headers(2),
     rows |-> [i \in 1..Len(answers) |-> <<IntCell(i), answers[i]>>]]

SurveyTables ==
    {SurveyTable(a) : a \in RichColumns \cup TallColumns \cup ScenarioColumns}

\* cells of a grid table: missing, the number 1, "no", "x "
GridVocab == {NA, IntCell(1), StrCell(<<110, 111>>), StrCell(<<120, 32>>)}

GridTablesOf(c, r) ==
    {[columns |-> Headers(c), rows |-> rows] :
        rows \in [1..r -> [1..c -> GridVocab]]}

GridTables ==
    UNION {GridTablesOf(c, r) :
              <<c, r>> \in {x \in (1..MaxCols) \X (0..MaxGridRows) :
                               x[1] * x[2] <= MaxGridCells}}

---------------------------------------------------------------------------
(* The state machine: a table is given, classified, then summarised *)

\* Python's None, and a value that is present
None == <<>>

Some(x) == <<x>>

\* the variables of slice_range while no call of it is modelled
SliceIdle ==
    /\ ld = None
    /\ from_row = None
    /\ to_row = None
    /\ sliced = None

\* the variables of the session while no session is modelled
AppIdle ==
    /\ session = None
    /\ uploader = None
    /\ select_question_box = None
    /\ rerun_pending = FALSE
    /\ last_event = "none"
    /\ notice = "none"
    /\ export_cache = None
    /\ export = None

\* A survey table is processed as the application does (one technical
\* column); a grid table with any technical_columns from -1 to one more than
\* its number of columns.
Init ==
    /\ SliceIdle
    /\ AppIdle
    /\ \/ df \in SurveyTables /\ technical_columns = 1
       \/ df \in GridTables /\ technical_columns \in -1..(NCols(df) + 1)
    /\ qinfo = <<>>
    /\ summaries = <<>>
    /\ pc = "loaded"

\* the caller's table with its labels stripped in place, as load_excels does
\* to its own frame (df.columns = [str(c).strip() for c in df.columns])
TableWithStrippedLabels(d) ==
    [d EXCEPT !.columns = [j \in 1..NCols(d) |-> Strip(d.columns[j])]]

\* The caller's table once classify_questions has returned: the function
\* reads df.columns and df[col]; dropna(), astype() and .str.strip() return
\* new series, and nothing is assigned into df.
TableAfterClassify(d) == d

\* The caller's table once build_all_summaries has returned: df[col] is read,
\* the summary is built from new series.
TableAfterSummaries(d) == d

\* qinfo = classify_questions(df, technical_columns)
Classify ==
    /\ pc = "loaded"
    /\ qinfo' = classify_questions(df, technical_columns)
    /\ df' = TableAfterClassify(df)
    /\ pc' = "classified"
    /\ UNCHANGED <<technical_columns, summaries, sliceVars, appVars>>

\* summaries = build_all_summaries(df, qinfo)
Summarize ==
    /\ pc \in {"classified", "regiven"}
    /\ ~SummariesRaiseKeyError(df, qinfo)
    /\ summaries' = build_all_summaries(df, qinfo)
    /\ df' = TableAfterSummaries(df)
    /\ pc' = "summarized"
    /\ UNCHANGED <<technical_columns, qinfo, sliceVars, appVars>>

Next == Classify \/ Summarize

Spec == Init /\ [][Next]_vars

---------------------------------------------------------------------------
(* The same calls when build_all_summaries is given another table than the *)
(* one that was classified: a row range of it, or one without a column.    *)

\* the row ranges of a table (DataFrame.iloc[a:b])
RowRanges(d) ==
    {[d EXCEPT !.rows = SubSeq(d.rows, a, b)] :
        <<a, b>> \in {x \in (1..NRows(d)) \X (1..NRows(d)) : x[1] <= x[2]}}

\* the table without its j-th column
WithoutColumn(d, j) ==
    [columns |-> RemoveAt(d.columns, j),
     rows |-> [i \in 1..NRows(d) |-> RemoveAt(d.rows[i], j)]]

OtherTables(d) ==
    (RowRanges(d) \cup {WithoutColumn(d, j) : j \in 1..NCols(d)}) \ {d}

InitOther ==
    /\ SliceIdle
    /\ AppIdle
    /\ df \in {d \in GridTables : NCols(d) * NRows(d) <= MaxOtherCells}
    /\ technical_columns \in 0..1
    /\ qinfo = <<>>
    /\ summaries = <<>>
    /\ pc = "loaded"

\* the caller holds another table when it goes on to build the summaries
GiveOtherTable ==
    /\ pc = "classified"
    /\ df' \in OtherTables(df)
    /\ pc' = "regiven"
    /\ UNCHANGED <<technical_columns, qinfo, summaries, sliceVars, appVars>>

\* build_all_summaries(df, qinfo) leaves by the KeyError of df[col]: nothing
\* is returned
SummarizeRaises ==
    /\ pc \in {"classified", "regiven"}
    /\ SummariesRaiseKeyError(df, qinfo)
    /\ pc' = "KeyError"
    /\ UNCHANGED <<df, technical_columns, qinfo, summaries, sliceVars, appVars>>

NextOther == Classify \/ GiveOtherTable \/ Summarize \/ SummarizeRaises

SpecOther == InitOther /\ [][NextOther]_vars


---------------------------------------------------------------------------
(* Properties.  They are stated on the table itself (sets of its cells),   *)
(* not through the operators that compute the results.                     *)

Abs(x) == IF x < 0 THEN -x ELSE x

\* rows of the table whose cell in column j is an answer
NonMissingRows(j) == {i \in 1..NRows(df) : ~IsMissing(df.rows[i][j])}

\* the distinct trimmed string forms of the answers in column j
TrimmedValues(j) ==
    {Strip(CellToStr(df.rows[i][j])) : i \in NonMissingRows(j)}

Classified == pc \in {"classified", "summarized"}

\* positions (1-based) of the columns that are not technical
QuestionColumns == {j \in 1..NCols(df) : j > technical_columns}

TagOf(j) == qinfo[j].info.qtype

IsScaleColumn(j) == TrimmedValues(j) \subseteq SCALE_SET

IsBinaryColumn(j) == {Lower(x) : x \in TrimmedValues(j)} \subseteq BINARY_SET

\* the tag the ordered cascade assigns to column j
CascadeTag(j) ==
    LET u == Cardinality(TrimmedValues(j))
        n == Cardinality(NonMissingRows(j))
    IN  IF NonMissingRows(j) = {} THEN OPEN
        ELSE IF IsScaleColumn(j) THEN SCALE
        ELSE IF IsBinaryColumn(j) THEN BINARY
        ELSE IF u <= 15 /\ 10 * u <= 7 * n THEN CATEGORICAL
        ELSE OPEN

\* C1: every non-technical column gets the tag of the ordered cascade
\* (no answers -> OPEN; all in "1".."5" -> SCALE; lower-cased all in the
\* binary vocabulary -> BINARY; else the categorical rule), so a column made
\* of scale or binary answers is SCALE or BINARY whatever its distinct count
\* and ratio are.
C1_Cascade ==
    Classified =>
        \A j \in QuestionColumns :
            /\ TagOf(j) = CascadeTag(j)
            /\ (NonMissingRows(j) # {} /\ IsScaleColumn(j)) => TagOf(j) = SCALE
            /\ (NonMissingRows(j) # {} /\ ~IsScaleColumn(j) /\ IsBinaryColumn(j))
                   => TagOf(j) = BINARY

\* a single answer "Так" (ratio 1 > 0.7) has been tagged BINARY
C1_Witness ==
    /\ Classified
    /\ df = SurveyTable(<<StrCell(<<1058, 1072, 1082>>)>>)
    /\ TagOf(2) = BINARY

\* C2: a column that is neither SCALE nor BINARY, with u distinct trimmed
\* values among n answers, is CATEGORICAL exactly when u <= 15 and
\* 10 * u <= 7 * n, and OPEN otherwise (20 of 20 is OPEN, 12 of 50 is
\* CATEGORICAL).
C2_CategoricalRule ==
    Classified =>
        \A j \in QuestionColumns :
            LET u == Cardinality(TrimmedValues(j))
                n == Cardinality(NonMissingRows(j))
            IN  (n > 0 /\ ~IsScaleColumn(j) /\ ~IsBinaryColumn(j)) =>
                    /\ TagOf(j) \in {CATEGORICAL, OPEN}
                    /\ TagOf(j) = CATEGORICAL <=> (u <= 15 /\ 10 * u <= 7 * n)
                    /\ (u = 20 /\ n = 20) => TagOf(j) = OPEN
                    /\ (u = 12 /\ n = 50) => TagOf(j) = CATEGORICAL

\* 15 distinct answers from 22 respondents have been tagged CATEGORICAL
C2_Witness ==
    /\ Classified
    /\ technical_columns = 1
    /\ NCols(df) = 2
    /\ Cardinality(TrimmedValues(2)) = 15
    /\ Cardinality(NonMissingRows(2)) = 22
    /\ TagOf(2) = CATEGORICAL

\* C3: with technical_columns a count (>= 0), the first technical_columns
\* columns are TECHNICAL with code "-", every other column (OPEN ones too)
\* has the code "Q<k>", k its 1-based position among the non-technical
\* columns; those codes are pairwise distinct; each column has exactly one
\* QuestionInfo, whose text is the trimmed header.
C3_Codes ==
    (Classified /\ technical_columns >= 0) =>
        /\ Len(qinfo) = NCols(df)
        /\ \A j \in 1..NCols(df) :
              /\ qinfo[j].key = df.columns[j]
              /\ qinfo[j].info.text = Strip(df.columns[j])
              /\ j <= technical_columns =>
                    /\ TagOf(j) = TECHNICAL
                    /\ qinfo[j].info.code = <<45>>
              /\ j > technical_columns =>
                    /\ TagOf(j) # TECHNICAL
                    /\ qinfo[j].info.code =
                          <<81, 48 + Cardinality({i \in QuestionColumns : i <= j})>>
        /\ \A i, j \in QuestionColumns :
              i # j => qinfo[i].info.code # qinfo[j].info.code

\* a three-column table with one technical column: "-", "Q1", "Q2", the
\* second question being OPEN
C3_Witness ==
    /\ Classified
    /\ technical_columns = 1
    /\ NCols(df) = 3
    /\ qinfo[1].info = QuestionInfo(<<45>>, <<116, 115>>, TECHNICAL)
    /\ qinfo[2].info.code = <<81, 49>>
    /\ qinfo[3].info = QuestionInfo(<<81, 50>>, <<113, 51>>, OPEN)


Summarized == pc = "summarized"

IsIncludedTag(t) == t \in {SCALE, BINARY, CATEGORICAL}

\* the position in qinfo (and in the table) of the column a summary is about
ColumnOf(qs) == CHOOSE j \in 1..Len(qinfo) : qinfo[j].info = qs.question

CountSum(table) == SumSeq([i \in 1..Len(table) |-> table[i].count])

PercentSum(table) == SumSeq([i \in 1..Len(table) |-> table[i].percent])

\* C4: the summaries are exactly the QuestionInfo of the columns tagged
\* SCALE, BINARY or CATEGORICAL, one each, in qinfo order; none is OPEN or
\* TECHNICAL.
C4_Included ==
    Summarized =>
        /\ [i \in 1..Len(summaries) |-> summaries[i].question]
              = SelectSeq([j \in 1..Len(qinfo) |-> qinfo[j].info],
                          LAMBDA info : IsIncludedTag(info.qtype))
        /\ \A i \in 1..Len(summaries) :
              summaries[i].question.qtype \notin {OPEN, TECHNICAL}

\* a table with a technical, an OPEN and an included column was summarised
C4_Witness ==
    /\ Summarized
    /\ \E j \in 1..Len(qinfo) : TagOf(j) = TECHNICAL
    /\ \E j \in 1..Len(qinfo) : TagOf(j) = OPEN
    /\ Len(summaries) >= 1
    /\ Len(summaries) < Len(qinfo)

\* C5: the counts of every summary's table add up to the number of
\* non-missing values of its column in the table given.
C5_CountConservation ==
    Summarized =>
        \A i \in 1..Len(summaries) :
            CountSum(summaries[i].table)
                = Cardinality(NonMissingRows(ColumnOf(summaries[i])))

\* a column with a missing cell and two distinct answers was summarised
C5_Witness ==
    /\ Summarized
    /\ \E i \in 1..Len(summaries) :
          LET j == ColumnOf(summaries[i])
          IN  /\ NonMissingRows(j) # 1..NRows(df)
              /\ Len(summaries[i].table) >= 2
              /\ CountSum(summaries[i].table) = NRows(df) - 1

\* C6 as stated: every percent is in [0, 100] and the percents of a
\* non-empty table add up to within 0.5 of 100.
C6_AsStated ==
    Summarized =>
        \A i \in 1..Len(summaries) :
            LET t == summaries[i].table
            IN  /\ \A k \in 1..Len(t) : t[k].percent \in 0..1000
                /\ t # <<>> => Abs(PercentSum(t) - 1000) <= 5

\* C6 amended: every percent is in [0, 100] and the percents of a non-empty
\* table add up to within 0.05 per row of 100: within 0.5 for tables of at
\* most 10 rows, within 0.75 for the at most 15 rows of a CATEGORICAL one.
C6_PercentBound ==
    Summarized =>
        \A i \in 1..Len(summaries) :
            LET t == summaries[i].table
            IN  /\ \A k \in 1..Len(t) : t[k].percent \in 0..1000
                /\ t # <<>> => 2 * Abs(PercentSum(t) - 1000) <= Len(t)
                /\ (t # <<>> /\ Len(t) <= 10) => Abs(PercentSum(t) - 1000) <= 5
                /\ (t # <<>> /\ summaries[i].question.qtype = CATEGORICAL)
                       => 2 * Abs(PercentSum(t) - 1000) <= 15

\* a CATEGORICAL table of more than 10 rows whose percents miss 100 by more
\* than 0.5
C6_Witness ==
    /\ Summarized
    /\ \E i \in 1..Len(summaries) :
          /\ summaries[i].question.qtype = CATEGORICAL
          /\ Len(summaries[i].table) > 10
          /\ Abs(PercentSum(summaries[i].table) - 1000) > 5

\* C7: each row's percent is its count / total non-missing * 100 rounded to
\* the nearest tenth, from that row's count alone (rows are not adjusted to
\* add up to 100); counts 1, 2, 1, 1 of 5 give 20.0, 40.0, 20.0, 20.0.
C7_PercentPerRow ==
    Summarized =>
        \A i \in 1..Len(summaries) :
            LET t == summaries[i].table
                n == Cardinality(NonMissingRows(ColumnOf(summaries[i])))
            IN  /\ \A k \in 1..Len(t) :
                      2 * Abs(t[k].percent * n - 1000 * t[k].count) <= n
                /\ [k \in 1..Len(t) |-> t[k].count] = <<1, 2, 1, 1>>
                      => [k \in 1..Len(t) |-> t[k].percent]
                             = <<200, 400, 200, 200>>

\* ["1", "2", "2", "3", "5"] was summarised as 1, 2, 1, 1 of 5 answers with
\* the percents 20.0, 40.0, 20.0, 20.0
C7_Witness ==
    /\ Summarized
    /\ df = SurveyTable(ScaleScenario)
    /\ summaries[1].table =
          << [value |-> <<49>>, count |-> 1, percent |-> 200],
             [value |-> <<50>>, count |-> 2, percent |-> 400],
             [value |-> <<51>>, count |-> 1, percent |-> 200],
             [value |-> <<53>>, count |-> 1, percent |-> 200] >>

\* C8: a table has exactly one row per distinct trimmed string among the
\* column's non-missing answers (values that differ only in surrounding
\* blanks share a row), in strictly ascending code-point order.
C8_RowsSorted ==
    Summarized =>
        \A i \in 1..Len(summaries) :
            LET t == summaries[i].table
                j == ColumnOf(summaries[i])
            IN  /\ {t[k].value : k \in 1..Len(t)} = TrimmedValues(j)
                /\ Len(t) = Cardinality(TrimmedValues(j))
                /\ \A k \in 1..Len(t) :
                      t[k].count = Cardinality({r \in NonMissingRows(j) :
                          Strip(CellToStr(df.rows[r][j])) = t[k].value})
                /\ \A k, l \in 1..Len(t) :
                      k < l => LexLess(t[k].value, t[l].value)

\* answers "x", 3, " 3" (first seen: "x") gave the rows "3" (twice), "x"
C8_Witness ==
    /\ Summarized
    /\ df = SurveyTable(<<StrCell(<<120>>), IntCell(3), StrCell(<<32, 51>>)>>)
    /\ [k \in 1..Len(summaries[1].table) |->
           <<summaries[1].table[k].value, summaries[1].table[k].count>>]
          = << <<(<<51>>), 2>>, <<(<<120>>), 1>> >>

\* C9: a BINARY column is recognised on lower-cased values but grouped by
\* the trimmed, case-preserved string: every row's lower-cased value is in
\* the binary vocabulary, case variants stay distinct rows, so the table has
\* at least as many rows as distinct lower-cased answers, and
\* ["Так", "Ні", "Так", "так "] gives Ні = 1, Так = 2, так = 1.
C9_CaseMismatch ==
    Summarized =>
        \A i \in 1..Len(summaries) :
            LET t == summaries[i].table
                j == ColumnOf(summaries[i])
            IN  summaries[i].question.qtype = BINARY =>
                    /\ \A k \in 1..Len(t) : Lower(t[k].value) \in BINARY_SET
                    /\ {t[k].value : k \in 1..Len(t)} = TrimmedValues(j)
                    /\ Len(t) >= Cardinality({Lower(x) : x \in TrimmedValues(j)})
                    /\ [r \in 1..NRows(df) |-> df.rows[r][j]] = BinaryScenario
                           => [k \in 1..Len(t) |-> <<t[k].value, t[k].count>>]
                                  = << <<(<<1053, 1110>>), 1>>,
                                       <<(<<1058, 1072, 1082>>), 2>>,
                                       <<(<<1090, 1072, 1082>>), 1>> >>

\* the BINARY table of ["Так", "Ні", "Так", "так "] has three rows for two
\* distinct lower-cased answers
C9_Witness ==
    /\ Summarized
    /\ df = SurveyTable(BinaryScenario)
    /\ summaries[1].question.qtype = BINARY
    /\ Len(summaries[1].table) = 3
    /\ Cardinality({Lower(x) : x \in TrimmedValues(2)}) = 2


---------------------------------------------------------------------------
(* Order of the rows, missing columns, argument validation *)

\* the cells of column j, top to bottom
ColumnCells(j) == [i \in 1..NRows(df) |-> df.rows[i][j]]

Reverse(s) == [i \in 1..Len(s) |-> s[Len(s) + 1 - i]]

\* s with its k-th and (k+1)-th elements exchanged
SwapAdjacent(s, k) ==
    [i \in 1..Len(s) |-> IF i = k THEN s[k + 1] ELSE IF i = k + 1 THEN s[k] ELSE s[i]]

\* the reversal of s and exchanges of two neighbours: all of them for a rich
\* column (there the exchanges generate every permutation, and the rich
\* columns are closed under them), the first one for a longer column
Reorderings(s) ==
    {Reverse(s)} \cup
    {SwapAdjacent(s, k) :
        k \in 1..(IF Len(s) <= MaxRichRows THEN Len(s) - 1 ELSE 1)}

\* C11: reordering the rows of a column changes neither the tag detect_type
\* gives it nor the frequency table built from it.
C11_OrderIndependent ==
    /\ Classified =>
          \A j \in QuestionColumns :
              \A p \in Reorderings(ColumnCells(j)) : detect_type(p) = TagOf(j)
    /\ Summarized =>
          \A i \in 1..Len(summaries) :
              \A p \in Reorderings(ColumnCells(ColumnOf(summaries[i]))) :
                  _build_summary_for_series(p, summaries[i].question)
                      = summaries[i]

\* a summarised column of three distinct answers and a missing cell, whose
\* reversal is another column
C11_Witness ==
    /\ Summarized
    /\ technical_columns = 1
    /\ NCols(df) = 2
    /\ NonMissingRows(2) # 1..NRows(df)
    /\ Cardinality(TrimmedValues(2)) = 3
    /\ Reverse(ColumnCells(2)) # ColumnCells(2)
    /\ Len(summaries) = 1

\* C13 as stated: classify_questions returns no classification when
\* technical_columns is negative or exceeds the number of columns.
C13_FailFast ==
    (technical_columns < 0 \/ technical_columns > NCols(df)) => ~Classified

\* C16: a non-technical column without any answer is classified (OPEN) and
\* has no entry in the summaries built with that classification.
C16_AllMissing ==
    \A j \in QuestionColumns :
        NonMissingRows(j) = {} =>
            /\ Classified => TagOf(j) = OPEN
            /\ Summarized =>
                  \A i \in 1..Len(summaries) :
                      summaries[i].question # qinfo[j].info

\* a table with rows, an all-missing question and a summarised question
C16_Witness ==
    /\ Summarized
    /\ NRows(df) >= 1
    /\ \E j \in QuestionColumns : NonMissingRows(j) = {} /\ TagOf(j) = OPEN
    /\ Len(summaries) >= 1


\* C12: neither call modifies the table passed to it: every cell, the
\* column labels and their order, and the row order are as before the call.
C12_TableUnchanged == [][df' = df]_vars

\* a table with blank-padded labels and a missing cell went through both
\* calls
C12_Witness ==
    /\ Summarized
    /\ \E j \in 1..NCols(df) : Strip(df.columns[j]) # df.columns[j]
    /\ \E j \in QuestionColumns : NonMissingRows(j) # 1..NRows(df)
    /\ Len(summaries) >= 1


---------------------------------------------------------------------------
(* data_loader: the row bounds of a loaded table and slicing a row range *)

LoadedData(d) == [df |-> d, n_rows |-> NRows(d), n_cols |-> NCols(d)]

\* (min_row, max_row) in spreadsheet numbering: the header is row 1
get_row_bounds(l) == IF l.n_rows = 0 THEN <<0, 0>> ELSE <<2, l.n_rows + 1>>

\* DataFrame.iloc[start:stop] for 0 <= start: rows start .. stop-1 counted
\* from 0, a stop beyond the end is cut to the end
iloc(d, start, stop) ==
    [d EXCEPT !.rows = SubSeq(d.rows, start + 1, Min(stop, NRows(d)))]

slice_range_raises_past_end(l, f, t) ==
    \/ f > t
    \/ f - 2 < 0
    \/ t - 2 > l.n_rows

\* the two ValueError exits of slice_range
slice_range_raises(l, f, t) ==
    \/ f > t
    \/ f - 2 < 0
    \/ t - 2 >= l.n_rows

slice_range_end_exclusive(l, f, t) == iloc(l.df, f - 2, t - 2)

\* the value slice_range returns when it does not raise
slice_range(l, f, t) == iloc(l.df, f - 2, (t - 2) + 1)

\* the loaded table after slice_range: the result is a .copy()
LoadedAfterSlice(l) == l

\* tables as load_excels leaves them: headers stripped, one row per
\* respondent (numbered in the first column)
LoadedTable(answers) ==
    [columns |-> [j \in 1..2 |-> Strip(HeaderOf(j))],
     rows |-> [i \in 1..Len(answers) |-> <<IntCell(i), answers[i]>>]]

LoadedTables ==
    {LoadedTable(a) : a \in UNION {[1..r -> GridVocab] : r \in 0..MaxSliceRows}}

NoTable == [columns |-> <<>>, rows |-> <<>>]

CoreIdle ==
    /\ df = NoTable
    /\ technical_columns = 1
    /\ qinfo = <<>>
    /\ summaries = <<>>
    /\ pc = "loaded"

InitSlice ==
    /\ CoreIdle
    /\ AppIdle
    /\ ld \in {LoadedData(d) : d \in LoadedTables}
    /\ from_row \in -1..(ld.n_rows + 3)
    /\ to_row \in -1..(ld.n_rows + 3)
    /\ sliced = None

SliceReturns ==
    /\ pc = "loaded"
    /\ ~slice_range_raises(ld, from_row, to_row)
    /\ sliced' = Some(slice_range(ld, from_row, to_row))
    /\ ld' = LoadedAfterSlice(ld)
    /\ pc' = "sliced"
    /\ UNCHANGED <<df, technical_columns, qinfo, summaries, from_row, to_row, appVars>>

SliceRaises ==
    /\ pc = "loaded"
    /\ slice_range_raises(ld, from_row, to_row)
    /\ pc' = "ValueError"
    /\ UNCHANGED <<df, technical_columns, qinfo, summaries, sliceVars, appVars>>

NextSlice == SliceReturns \/ SliceRaises

SpecSlice == InitSlice /\ [][NextSlice]_vars

---------------------------------------------------------------------------
(* app.py: the page script, run once per operator event *)

\* the workbooks an uploaded file may hold, named by their bytes
Workbooks == {"answers2", "answers1", "not_excel"}

\* file names: "a.xlsx", "b.xlsx"
FileNames == {"a", "b"}

UploadedFile(name, bytes) == [name |-> name, bytes |-> bytes]

UploadedFiles == {UploadedFile(n, b) : n \in FileNames, b \in Workbooks}

\* pd.read_excel fails on bytes that are no workbook
read_excel_raises(bytes) == bytes = "not_excel"

\* pd.read_excel: two respondents (a scale and a yes/no question), or one
\* respondent (a scale question and a free answer)
read_excel(bytes) ==
    IF bytes = "answers2"
    THEN [columns |-> Headers(3),
          rows |-> << <<IntCell(1), IntCell(3), StrCell(<<110, 111>>)>>,
                      <<IntCell(2), IntCell(1), StrCell(<<110, 111>>)>> >>]
    ELSE [columns |-> Headers(3),
          rows |-> << <<IntCell(1), IntCell(1), StrCell(<<120, 32>>)>> >>]

load_excels_raises(files) ==
    \/ files = <<>>
    \/ \E i \in 1..Len(files) : read_excel_raises(files[i].bytes)

\* pd.concat(frames, ignore_index=True) of frames with the same columns
RECURSIVE ConcatRows(_)
ConcatRows(files) ==
    IF files = <<>> THEN <<>>
    ELSE read_excel(Head(files).bytes).rows \o ConcatRows(Tail(files))

load_excels(files) ==
    LoadedData([columns |-> [j \in 1..3 |-> Strip(HeaderOf(j))],
                rows |-> ConcatRows(files)])

NamesOf(files) == [i \in 1..Len(files) |-> files[i].name]

\* st.session_state after init_state()
InitialSession ==
    [uploaded_files_store |-> None,
     ld |-> None,
     sliced |-> None,
     qinfo |-> None,
     summaries |-> None,
     processed |-> FALSE,
     selected_code |-> None,
     from_row |-> None,
     to_row |-> None,
     uploaded_names_snapshot |-> None]

\* reading an upload held in memory does not fail
store_uploaded_files(sess, uploaded_files) ==
    IF uploaded_files = <<>> THEN sess
    ELSE [sess EXCEPT !.uploaded_files_store = Some(uploaded_files),
                      !.uploaded_names_snapshot = Some(NamesOf(uploaded_files))]

\* a clearing that leaves the processed flag as it is
clear_processing_state_keeps_flag(sess, keep_files) ==
    LET cleared == [sess EXCEPT !.ld = None,
                                !.sliced = None,
                                !.qinfo = None,
                                !.summaries = None,
                                !.selected_code = None,
                                !.from_row = None,
                                !.to_row = None]
    IN  IF keep_files THEN cleared
        ELSE [cleared EXCEPT !.uploaded_files_store = None,
                             !.uploaded_names_snapshot = None]

clear_processing_state(sess, keep_files) ==
    LET cleared == [sess EXCEPT !.ld = None,
                                !.sliced = None,
                                !.qinfo = None,
                                !.summaries = None,
                                !.processed = FALSE,
                                !.selected_code = None,
                                !.from_row = None,
                                !.to_row = None]
    IN  IF keep_files THEN cleared
        ELSE [cleared EXCEPT !.uploaded_files_store = None,
                             !.uploaded_names_snapshot = None]

\* "not st.session_state.uploaded_files_store"
StoreEmpty(sess) ==
    sess.uploaded_files_store = None \/ sess.uploaded_files_store[1] = <<>>

available_codes(sess) ==
    IF sess.summaries = None THEN <<>>
    ELSE [i \in 1..Len(sess.summaries[1]) |-> sess.summaries[1][i].question.code]

\* process_range_from_store leaves by an exception
process_raises(sess, f, t) ==
    \/ StoreEmpty(sess)
    \/ load_excels_raises(sess.uploaded_files_store[1])
    \/ slice_range_raises(load_excels(sess.uploaded_files_store[1]), f, t)
    \/ LET sl == slice_range(load_excels(sess.uploaded_files_store[1]), f, t)
       IN  SummariesRaiseKeyError(sl, classify_questions(sl, 1))

\* the session after process_range_from_store returns
process_range_from_store(sess, f, t) ==
    LET l == load_excels(sess.uploaded_files_store[1])
        sl == slice_range(l, f, t)
        q == classify_questions(sl, 1)
        sm == build_all_summaries(sl, q)
    IN  [sess EXCEPT !.ld = Some(l),
                     !.sliced = Some(sl),
                     !.qinfo = Some(q),
                     !.summaries = Some(sm),
                     !.processed = TRUE,
                     !.from_row = Some(f),
                     !.to_row = Some(t),
                     !.selected_code =
                         IF sm = <<>> THEN None ELSE Some(sm[1].question.code)]

\* a processing that notes the requested range before it computes
AfterFailedProcessRangeNoted(sess, f, t) ==
    [sess EXCEPT !.from_row = Some(f), !.to_row = Some(t)]

\* the session after process_range_from_store left by an exception: the
\* exception precedes every assignment to st.session_state
AfterFailedProcess(sess, f, t) == sess

\* every run with files in the uploader counts as new files
FilesChangedAlways(sess, uploaded_files) == uploaded_files # <<>>

\* the test of lines 158-160: files are in the uploader and their names
\* differ from the snapshot
FilesChanged(sess, uploaded_files) ==
    /\ uploaded_files # <<>>
    /\ sess.uploaded_names_snapshot # Some(NamesOf(uploaded_files))

\* lines 158-163
AfterUpload(sess, uploaded_files) ==
    IF FilesChanged(sess, uploaded_files)
    THEN clear_processing_state(store_uploaded_files(sess, uploaded_files), TRUE)
    ELSE sess

ShowsOverview(sess) == sess.processed /\ sess.ld # None

\* the script gets to the two number inputs: files are stored and, when no
\* range is processed yet, they can be read
ReachesInputs(sess) ==
    /\ ~StoreEmpty(sess)
    /\ ShowsOverview(sess) \/ ~load_excels_raises(sess.uploaded_files_store[1])

\* (min_row, max_row) of the two number inputs
ShownBounds(sess) ==
    IF ShowsOverview(sess) THEN get_row_bounds(sess.ld[1])
    ELSE get_row_bounds(load_excels(sess.uploaded_files_store[1]))

\* the rows the operator can have put into a number input
RowChoices(sess) ==
    IF ReachesInputs(sess) THEN ShownBounds(sess)[1]..ShownBounds(sess)[2]
    ELSE {0}

\* what one run of the script leaves: the session, the kept value of the
\* widget "select_question_box", and whether st.rerun() was called
Outcome(sess, box, rerun) == [session |-> sess, box |-> box, rerun |-> rerun]

\* the values st.selectbox can return: the operator's pick in the run the
\* pick triggers; otherwise the option at index, or the value the widget
\* kept when the widget is still taken for the same one
SelectboxValues(options, index, box, pick) ==
    IF pick # None THEN {pick[1]}
    ELSE {options[index]} \cup
         (IF box # None /\ box[1] \in Range(options) THEN {box[1]} ELSE {})

\* lines 226-281: the results and the question selector
Display(sess, box, pick) ==
    LET codes == available_codes(sess)
        default_index ==
            IF sess.selected_code # None /\ sess.selected_code[1] \in Range(codes)
            THEN CHOOSE i \in 1..Len(codes) :
                    /\ codes[i] = sess.selected_code[1]
                    /\ \A k \in 1..(i - 1) : codes[k] # codes[i]
            ELSE 1
    IN  IF ~sess.processed \/ codes = <<>>
        THEN {Outcome(sess, None, FALSE)}
        ELSE {Outcome([sess EXCEPT !.selected_code = Some(c)], Some(c), FALSE) :
                 c \in SelectboxValues(codes, default_index, box, pick)}

\* one run of main(): event is what triggered it, f and t are the values of
\* the number inputs, pick the option chosen in the selector (or None)
main(sess, uploaded_files, box, event, f, t, pick) ==
    LET s1 == AfterUpload(sess, uploaded_files)
    IN  IF ~ReachesInputs(s1) THEN {Outcome(s1, None, FALSE)}
        ELSE IF event = "process" /\ process_raises(s1, f, t)
        THEN {Outcome(AfterFailedProcess(s1, f, t), None, FALSE)}
        ELSE LET s2 == IF event = "process"
                       THEN process_range_from_store(s1, f, t) ELSE s1
             IN  IF event = "reset"
                 THEN {Outcome(clear_processing_state(s2, FALSE), None, TRUE)}
                 ELSE Display(s2, box, pick)

\* the message of one run of main(): the hint to upload files (line 167),
\* the error of reading them (203), the error or success of processing
\* (191-193, 212-214), the reset (222), the hint to choose a range (217)
Notice(sess, uploaded_files, event, f, t) ==
    LET s1 == AfterUpload(sess, uploaded_files)
    IN  IF StoreEmpty(s1) THEN "upload_files"
        ELSE IF ~ReachesInputs(s1) THEN "read_error"
        ELSE IF event = "process"
        THEN IF process_raises(s1, f, t) THEN "process_error" ELSE "processed"
        ELSE IF event = "reset" THEN "reset_done"
        ELSE IF ShowsOverview(s1) THEN "none"
        ELSE "choose_range"

\* the cached export functions modelled: get_excel_data and get_pptx_data
\* (get_pdf_data and get_docx_data take the arguments of get_excel_data
\* without _qinfo)
ExportKinds == {"excel", "pptx"}

\* values of the text input "presentation topic"
Topics == {"report", "survey"}

\* the arguments of a cached export function at lines 311-317 and 367-373
ReportInputs(kind, sess, topic) ==
    [kind |-> kind,
     original_df |-> sess.ld[1].df,
     sliced_df |-> sess.sliced[1],
     qinfo |-> IF kind = "excel" THEN sess.qinfo ELSE None,
     summaries |-> sess.summaries[1],
     range_info |-> <<sess.from_row, sess.to_row, NRows(sess.sliced[1])>>,
     topic |-> IF kind = "pptx" THEN Some(topic) ELSE None]

\* build_*_report: the bytes of a report, told apart by what they render
build_report(inputs) == [renders |-> inputs]

\* the parameters of a cached function that st.cache_data hashes: those
\* whose name does not begin with an underscore; every parameter of
\* get_excel_data and get_pptx_data begins with one
HashedArguments(inputs) == <<>>

\* the cache entries: [function, hashed arguments, value]
CacheLookup(cache, kind, inputs) ==
    {c \in Range(cache) : c.function = kind /\ c.key = HashedArguments(inputs)}

\* the value a cached function returns
CachedCall(cache, kind, inputs) ==
    IF CacheLookup(cache, kind, inputs) # {}
    THEN (CHOOSE c \in CacheLookup(cache, kind, inputs) : TRUE).value
    ELSE build_report(inputs)

\* the cache after the call
CacheAfterCall(cache, kind, inputs) ==
    IF CacheLookup(cache, kind, inputs) # {} THEN cache
    ELSE Append(cache, [function |-> kind,
                        key |-> HashedArguments(inputs),
                        value |-> build_report(inputs)])

InitApp ==
    /\ CoreIdle
    /\ SliceIdle
    /\ session = InitialSession
    /\ uploader = <<>>
    /\ select_question_box = None
    /\ rerun_pending = FALSE
    /\ last_event = "none"
    /\ notice = "none"
    /\ export_cache = <<>>
    /\ export = None

\* one run of the script on the uploader's files, up to the export buttons
Script(uploaded_files, event, f, t, pick) ==
    /\ \E o \in main(session, uploaded_files, select_question_box, event, f, t, pick) :
          /\ session' = o.session
          /\ select_question_box' = o.box
          /\ rerun_pending' = o.rerun
    /\ uploader' = uploaded_files
    /\ last_event' = event
    /\ notice' = Notice(session, uploaded_files, event, f, t)
    /\ UNCHANGED <<coreVars, sliceVars>>

\* a run in which no export button is pressed
Runs(uploaded_files, event, f, t, pick) ==
    /\ Script(uploaded_files, event, f, t, pick)
    /\ export' = None
    /\ UNCHANGED export_cache

\* the operator adds a file to the uploader
AddFile ==
    /\ ~rerun_pending
    /\ Len(uploader) < MaxFiles
    /\ \E file \in UploadedFiles :
          /\ file.name \notin Range(NamesOf(uploader))
          /\ Runs(Append(uploader, file), "upload", 0, 0, None)

\* the operator removes a file from the uploader
RemoveFile ==
    /\ ~rerun_pending
    /\ \E k \in 1..Len(uploader) :
          Runs(RemoveAt(uploader, k), "upload", 0, 0, None)

\* the operator presses the "process range" button
ClickProcess ==
    /\ ~rerun_pending
    /\ \E f, t \in RowChoices(AfterUpload(session, uploader)) :
          Runs(uploader, "process", f, t, None)

\* the operator presses the reset button
ClickReset ==
    /\ ~rerun_pending
    /\ Runs(uploader, "reset", 0, 0, None)

\* the operator picks a question in the selector
PickQuestion ==
    /\ ~rerun_pending
    /\ session.processed
    /\ \E c \in Range(available_codes(session)) :
          Runs(uploader, "select", 0, 0, Some(c))

\* any other widget (a number input, the topic text) triggers a run
Rerun ==
    /\ ~rerun_pending
    /\ Runs(uploader, "rerun", 0, 0, None)

\* the run that st.rerun() asked for
RerunAfterReset ==
    /\ rerun_pending
    /\ Runs(uploader, "st.rerun", 0, 0, None)

\* the operator presses an export button, with some topic in the text input
ClickExport ==
    /\ ~rerun_pending
    /\ session.processed
    /\ Script(uploader, "export", 0, 0, None)
    /\ \E kind \in ExportKinds, topic \in Topics :
          LET inputs == ReportInputs(kind, session', topic)
          IN  /\ export' = Some([kind |-> kind, topic |-> topic,
                                 data |-> CachedCall(export_cache, kind, inputs)])
              /\ export_cache' = CacheAfterCall(export_cache, kind, inputs)

NextApp ==
    \/ AddFile
    \/ RemoveFile
    \/ ClickProcess
    \/ ClickReset
    \/ PickQuestion
    \/ Rerun
    \/ RerunAfterReset

SpecApp == InitApp /\ [][NextApp]_vars

\* Sessions with exports: the operator uploads one file, named "a.xlsx"
OneFile == Len(uploader) <= 1 /\ \A i \in 1..Len(uploader) : uploader[i].name = "a"

AddOneFile == AddFile /\ OneFile'

NextExport ==
    \/ AddOneFile
    \/ RemoveFile
    \/ ClickProcess
    \/ ClickReset
    \/ PickQuestion
    \/ Rerun
    \/ RerunAfterReset
    \/ ClickExport

SpecExport == InitApp /\ [][NextExport]_vars

---------------------------------------------------------------------------
(* Summaries of a table that lacks a classified column (SpecOther) *)

SummariesCalled == pc \in {"summarized", "KeyError"}

\* entries of qinfo that build_all_summaries does not skip
IncludedEntries == {j \in 1..Len(qinfo) : IsIncludedTag(qinfo[j].info.qtype)}

\* the column of entry j is not in the table given
ColumnAbsent(j) == ~HasColumn(df, qinfo[j].key)

\* the column of entry j is in the table given and holds no answer
ColumnAllMissing(j) ==
    /\ HasColumn(df, qinfo[j].key)
    /\ dropna(Column(df, qinfo[j].key)) = <<>>

HasSummary(j, table) ==
    \E i \in 1..Len(summaries) :
        summaries[i] = QuestionSummary(qinfo[j].info, table)

\* C14 as stated: when aggregating one column fails (its df[col] raises),
\* build_all_summaries still returns: the failing column has a summary with
\* an empty table and every other included column its normal summary.
C14_FaultIsolated ==
    (SummariesCalled /\ \E j \in IncludedEntries : ColumnAbsent(j)) =>
        /\ pc = "summarized"
        /\ \A j \in IncludedEntries :
              IF ColumnAbsent(j) THEN HasSummary(j, <<>>)
              ELSE HasSummary(j, _build_summary_for_series(
                                     Column(df, qinfo[j].key), qinfo[j].info).table)

\* C15 as stated: an included column that is absent from the table given, or
\* present without any answer, gets a summary with an empty table and no
\* error is raised.
C15_EmptyTable ==
    SummariesCalled =>
        \A j \in IncludedEntries :
            (ColumnAbsent(j) \/ ColumnAllMissing(j)) =>
                pc = "summarized" /\ HasSummary(j, <<>>)

---------------------------------------------------------------------------
(* Slicing a row range (SpecSlice) *)

\* the pair (f, t) lies inside the bounds b = (min_row, max_row)
InsideBounds(b, f, t) == b[1] <= f /\ f <= t /\ t <= b[2]

ValidRange == 2 <= from_row /\ from_row <= to_row /\ to_row <= ld.n_rows + 1

\* C17: with valid bounds slice_range returns exactly the
\* to_row - from_row + 1 rows at indices from_row-2 .. to_row-2 (counted
\* from 0) of the loaded table, in their order and under its columns, and
\* the loaded table is as it was.
C17_SliceContent ==
    [][(pc = "loaded" /\ pc' # "loaded" /\ ValidRange) =>
          /\ pc' = "sliced"
          /\ ld' = ld
          /\ sliced' # None
          /\ sliced'[1].columns = ld.df.columns
          /\ Len(sliced'[1].rows) = to_row - from_row + 1
          /\ \A k \in 0..(to_row - from_row) :
                sliced'[1].rows[k + 1] = ld.df.rows[(from_row - 2 + k) + 1]]_vars

\* a proper inner range of several rows has been sliced
C17_Witness ==
    /\ pc = "sliced"
    /\ 2 < from_row
    /\ from_row < to_row
    /\ NRows(sliced[1]) = 2
    /\ sliced[1].rows[1] # sliced[1].rows[2]

\* C18: slice_range raises ValueError and returns nothing when
\* from_row > to_row or the range leaves the rows there are; on a table with
\* rows it accepts exactly 2 <= from_row <= to_row <= n_rows + 1, the pairs
\* inside get_row_bounds; on an empty table get_row_bounds is (0, 0) and
\* nothing is accepted.
C18_Accepted ==
    pc \in {"sliced", "ValueError"} =>
        /\ (pc = "sliced") = ValidRange
        /\ pc = "ValueError" => sliced = None
        /\ (from_row > to_row \/ from_row < 2 \/ to_row > ld.n_rows + 1) =>
              pc = "ValueError"
        /\ ld.n_rows >= 1 =>
              /\ get_row_bounds(ld) = <<2, ld.n_rows + 1>>
              /\ (pc = "sliced") = InsideBounds(get_row_bounds(ld), from_row, to_row)
        /\ ld.n_rows = 0 =>
              /\ get_row_bounds(ld) = <<0, 0>>
              /\ pc = "ValueError"

\* a range ending one row past the last one has been refused
C18_Witness ==
    /\ pc = "ValueError"
    /\ ld.n_rows >= 1
    /\ from_row = 2
    /\ to_row = ld.n_rows + 2

---------------------------------------------------------------------------
(* The page script (SpecApp) *)

\* the processed results held in a session
Results(sess) == <<sess.ld, sess.sliced, sess.qinfo, sess.summaries>>

NoResults == <<None, None, None, None>>

\* a session as clear_processing_state leaves its processing fields
IsCleared(sess) ==
    /\ ~sess.processed
    /\ Results(sess) = NoResults
    /\ sess.selected_code = None
    /\ sess.from_row = None
    /\ sess.to_row = None

\* C19: a run triggered by picking a question changes no session field but
\* selected_code, which becomes the pick; the loaded table, slice,
\* classification and summaries change only in a run triggered by the
\* "process range" button, or by being cleared in a run triggered by a
\* change of the uploaded files or by the reset button.
C19_SelectionOnly ==
    [][/\ last_event' = "select" =>
             /\ [session' EXCEPT !.selected_code = session.selected_code] = session
             /\ session'.selected_code = select_question_box'
             /\ session'.selected_code # None
       /\ Results(session') # Results(session) =>
             \/ last_event' = "process"
             \/ /\ last_event' \in {"upload", "reset"}
                /\ Results(session') = NoResults]_vars

\* with two questions summarised, the one that is not the default was picked
C19_Witness ==
    /\ last_event = "select"
    /\ session.processed
    /\ Len(available_codes(session)) >= 2
    /\ session.selected_code = Some(available_codes(session)[2])
    /\ available_codes(session)[2] # available_codes(session)[1]

\* C20 as stated: in every run where the uploader holds other files than in
\* the run before, these files are the stored ones afterwards and the
\* processed results are cleared.
C20_FilesChange ==
    [][(uploader' # uploader /\ uploader' # <<>>) =>
          /\ session'.uploaded_files_store = Some(uploader')
          /\ IsCleared(session')]_vars


\* C21 as stated: a run triggered by the reset button leaves the stored
\* files as they are: uploaded_files_store and uploaded_names_snapshot keep
\* their values.
C21_ResetKeepsFiles ==
    [][last_event' = "reset" =>
          /\ session'.uploaded_files_store = session.uploaded_files_store
          /\ session'.uploaded_names_snapshot = session.uploaded_names_snapshot]_vars

\* C23: whenever processed is True, files are stored, ld, sliced, qinfo,
\* summaries, from_row and to_row are set, sliced is the rows
\* from_row..to_row of ld, qinfo and summaries are those computed from that
\* sliced table, and selected_code is the code of one of the summaries, or
\* None when there is no summary.
C23_ProcessedComplete ==
    session.processed =>
        /\ ~StoreEmpty(session)
        /\ session.ld # None
        /\ session.sliced # None
        /\ session.qinfo # None
        /\ session.summaries # None
        /\ session.from_row # None
        /\ session.to_row # None
        /\ ~slice_range_raises(session.ld[1], session.from_row[1], session.to_row[1])
        /\ session.sliced[1] =
              slice_range(session.ld[1], session.from_row[1], session.to_row[1])
        /\ session.qinfo[1] = classify_questions(session.sliced[1], 1)
        /\ session.summaries[1] =
              build_all_summaries(session.sliced[1], session.qinfo[1])
        /\ IF available_codes(session) = <<>>
           THEN session.selected_code = None
           ELSE /\ session.selected_code # None
                /\ session.selected_code[1] \in Range(available_codes(session))

\* the second row alone of a three-row table is processed and its second
\* question is the selected one
C23_Witness ==
    /\ session.processed
    /\ session.ld[1].n_rows = 3
    /\ session.from_row = Some(3)
    /\ session.to_row = Some(3)
    /\ Len(available_codes(session)) = 2
    /\ session.selected_code = Some(available_codes(session)[2])


\* C24: a run in which process_range_from_store fails modifies no session
\* field: the results of an earlier processing, processed, from_row, to_row
\* and selected_code included, are as before.
C24_FailureChangesNothing ==
    [][notice' = "process_error" => session' = session]_vars

\* with a processed range in the session, a processing has failed
C24_Witness ==
    /\ notice = "process_error"
    /\ session.processed
    /\ session.from_row = Some(2)
    /\ session.to_row = Some(3)
    /\ session.selected_code # None

\* C22 as stated: the report a run offers for download is the one built from
\* the session's current table, range and summaries and from the topic
\* entered, never one cached for other inputs.
C22_ExportIsCurrent ==
    export # None =>
        export[1].data =
            build_report(ReportInputs(export[1].kind, session, export[1].topic))


---------------------------------------------------------------------------
(* Empty frequency tables (SpecOther) *)

\* the classification is the one classify_questions gives for the table
\* that is summarised
ClassifiedFromSameTable == qinfo = classify_questions(df, technical_columns)

\* C25: when the classification given to build_all_summaries is the one
\* computed from the same table, every returned summary has a non-empty
\* frequency table; a summary with an empty table is returned only for a
\* classification computed from other data.
C25_NoEmptyTable ==
    (Summarized /\ ClassifiedFromSameTable) =>
        \A i \in 1..Len(summaries) : summaries[i].table # <<>>

\* a table with a missing cell in a summarised column, summarised under its
\* own classification
C25_Witness ==
    /\ Summarized
    /\ ClassifiedFromSameTable
    /\ Len(summaries) >= 1
    /\ \E j \in QuestionColumns :
          /\ NonMissingRows(j) # 1..NRows(df)
          /\ NonMissingRows(j) # {}
          /\ IsIncludedTag(TagOf(j))

===========================================================================
